---- MODULE Spec2Model ----
(***************************************************************************)
(* Model of crates/svg_preview/src/svg_preview_view.rs: the SVG preview    *)
(* panel (SvgPreviewView), its document binding, its follow mode, its      *)
(* asynchronous render pipeline and its pan/zoom input.                    *)
(*                                                                         *)
(* Conventions.  Option<T> is a sequence of length at most one: None is    *)
(* <<>> and Some(x) is <<x>>.  A Point<Pixels> is a pair <<x, y>>.  The    *)
(* scale factor is kept in quarter units (0.25 = 1, 1.0 = 4, 20.0 = 80),   *)
(* and wheel deltas in the same unit.  Strings that the code inspects      *)
(* (file names) are sequences of ASCII codes.                              *)
(***************************************************************************)
EXTENDS Integers, Sequences, FiniteSets, TLC

VARIABLES
    buffer_text,    \* Buffer entity -> current text (buffer.read(cx).snapshot().text())
    active_item,    \* workspace.active_item(cx)
    panes,          \* panes of the workspace; panes[p] = SvgPreviewView items of pane p
    views,          \* SvgPreviewView entities, in creation order
    subscriptions,  \* live BufferEvent subscriptions registered with the buffers
    tasks,          \* render tasks spawned and not yet finished
    next_task,      \* number of render tasks spawned so far
    active_drag,    \* cx.active_drag: Option<[view, value: DragStart]>
    drop_image_calls,   \* the calls of window.drop_image made so far: [id, ok]
    closed          \* the views whose pane item was closed (entity dropped)

vars == <<buffer_text, active_item, panes, views, subscriptions, tasks, next_task, active_drag,
          drop_image_calls, closed>>

----------------------------------------------------------------------------
(* Bounds of the model *)

MaxViews == 2
MaxRenders == 3
MaxPan == 25

----------------------------------------------------------------------------
(* Option<T> *)

None == <<>>
Some(x) == <<x>>
IsSome(o) == Len(o) = 1
Unwrap(o) == o[1]

----------------------------------------------------------------------------
(* The host: buffers, files, editors *)

Buffers == 1..6

\* file names: "a.svg", "icon.SVG", none, "b.png", ".svg", "svg"
BufferFile(b) ==
    CASE b = 1 -> Some(<<97, 46, 115, 118, 103>>)
      [] b = 2 -> Some(<<105, 99, 111, 110, 46, 83, 86, 71>>)
      [] b = 3 -> None
      [] b = 4 -> Some(<<98, 46, 112, 110, 103>>)
      [] b = 5 -> Some(<<46, 115, 118, 103>>)
      [] b = 6 -> Some(<<115, 118, 103>>)

Editors == 1..8

\* editor.read(cx).buffer(): the MultiBuffer of the editor, as the sequence of
\* the buffers it shows.  Editor 3 is a composite of two svg buffers, editor 8
\* a second editor on buffer 1.
EditorMultiBuffer(e) ==
    CASE e = 1 -> <<1>>
      [] e = 2 -> <<2>>
      [] e = 3 -> <<1, 2>>
      [] e = 4 -> <<3>>
      [] e = 5 -> <<4>>
      [] e = 6 -> <<5>>
      [] e = 7 -> <<6>>
      [] e = 8 -> <<1>>

\* MultiBuffer::as_singleton
as_singleton(e) ==
    IF Len(EditorMultiBuffer(e)) = 1 THEN Some(EditorMultiBuffer(e)[1]) ELSE None

\* Entity ids are unique over all entities: a Buffer and a MultiBuffer never
\* share one.
BufferEntityId(b) == b
MultiBufferEntityId(e) == Cardinality(Buffers) + e

\* Items the workspace can report as active.
NoItem == <<"none", 0>>
OtherItem == <<"other", 0>>
EditorItem(e) == <<"editor", e>>
PreviewItem(v) == <<"preview", v>>

----------------------------------------------------------------------------
(* is_svg_file *)

\* u8::to_ascii_lowercase
to_ascii_lowercase(c) == IF c >= 65 /\ c <= 90 THEN c + 32 ELSE c

\* str::eq_ignore_ascii_case
eq_ignore_ascii_case(a, b) ==
    /\ Len(a) = Len(b)
    /\ \A i \in 1..Len(a) : to_ascii_lowercase(a[i]) = to_ascii_lowercase(b[i])

\* positions of '.' in a file name
DotPositions(name) == {i \in 1..Len(name) : name[i] = 46}

\* Path::extension: the part after the last '.', None when there is no '.'
\* or when the only '.' starts the name.
extension(name) ==
    IF DotPositions(name) = {} THEN None
    ELSE LET last == CHOOSE i \in DotPositions(name) : \A j \in DotPositions(name) : j <= i
         IN IF last = 1 THEN None
            ELSE Some(SubSeq(name, last + 1, Len(name)))

\* A variant of is_svg_file that accepts every singleton document.
is_svg_file_any_singleton(e) == IsSome(as_singleton(e))

is_svg_file(e) ==
    IF IsSome(as_singleton(e)) /\ IsSome(BufferFile(Unwrap(as_singleton(e))))
    THEN LET ext == extension(Unwrap(BufferFile(Unwrap(as_singleton(e)))))
         IN IF IsSome(ext)
            THEN eq_ignore_ascii_case(Unwrap(ext), <<115, 118, 103>>)
            ELSE FALSE
    ELSE FALSE

\* resolve_active_item_as_svg_editor: active_item()?.act_as::<Editor>().filter(is_svg_file)
resolve_active_item_as_svg_editor(item) ==
    IF item[1] = "editor" /\ is_svg_file(item[2]) THEN Some(item[2]) ELSE None

----------------------------------------------------------------------------
(* The rasterizer: renderer.render_single_frame(bytes, scale_factor, true) *)

Texts == {"<svg>circle</svg>", "<svg>rect</svg>", "<svg"}

Malformed == {"<svg"}

\* Result<Arc<RenderImage>, Error>; the image made by task id
render_single_frame(id, content, scale_factor) ==
    IF content \in Malformed
    THEN [ok |-> FALSE, image |-> None, err |-> "SVG data parsing failed"]
    ELSE [ok |-> TRUE,
          image |-> Some([id |-> id, src |-> content, scale |-> scale_factor]),
          err |-> ""]

----------------------------------------------------------------------------
(* SvgPreviewView *)

ScaleInit == 4
ScaleMin == 1
ScaleMax == 80

Origin == <<0, 0>>
PointAdd(p, q) == <<p[1] + q[1], p[2] + q[2]>>
PointSub(p, q) == <<p[1] - q[1], p[2] - q[2]>>

\* The part of the program state the handlers of one view act on.
St(vs, subs, ts, n) == [views |-> vs, subscriptions |-> subs, tasks |-> ts, next_task |-> n]

Current == St(views, subscriptions, tasks, next_task)

\* Dropping a Task handle cancels the task: its continuation never runs.
DropTask(ts, id) ==
    {IF t.id = id THEN [t EXCEPT !.cancelled = TRUE] ELSE t : t \in ts}

\* A variant of render_image that detaches the previous task instead of
\* dropping it.
render_image_detached(S, v, text) ==
    LET view == S.views[v] IN
    IF ~IsSome(view.buffer) THEN S
    ELSE LET id == S.next_task + 1
             task == [id |-> id, view |-> v,
                      content |-> text[Unwrap(view.buffer)],
                      scale_factor |-> view.scale_factor,
                      cancelled |-> FALSE]
         IN [S EXCEPT !.views[v].refresh = id,
                      !.tasks = S.tasks \cup {task},
                      !.next_task = id]

\* render_image: snapshot the bound buffer and the scale factor, spawn the
\* render, and store its Task in _refresh, which drops the previous Task.
render_image(S, v, text) ==
    LET view == S.views[v] IN
    IF ~IsSome(view.buffer) THEN S
    ELSE LET id == S.next_task + 1
             task == [id |-> id, view |-> v,
                      content |-> text[Unwrap(view.buffer)],
                      scale_factor |-> view.scale_factor,
                      cancelled |-> FALSE]
         IN [S EXCEPT !.views[v].refresh = id,
                      !.tasks = DropTask(S.tasks, view.refresh) \cup {task},
                      !.next_task = id]

\* create_buffer_subscription: register a BufferEvent callback of view v
\* with buffer b.
create_buffer_subscription(b, v) == [buffer |-> b, view |-> v]

\* Dropping a Subscription unregisters its callback.
DropSubscription(subs, o) == IF IsSome(o) THEN subs \ {Unwrap(o)} ELSE subs

\* A variant of SvgPreviewView::new that subscribes to the workspace in
\* every mode.
new_always_following(S, mode, e, text) ==
    LET v == Len(S.views) + 1
        buffer == as_singleton(e)
        subscription == IF IsSome(buffer)
                        THEN Some(create_buffer_subscription(Unwrap(buffer), v))
                        ELSE None
        this == [mode |-> mode,
                 buffer |-> buffer,
                 error |-> None,
                 current_svg |-> None,
                 scale_factor |-> ScaleInit,
                 drag_start |-> Origin,
                 image_offset |-> Origin,
                 buffer_subscription |-> subscription,
                 workspace_subscription |-> TRUE,
                 refresh |-> 0]
    IN render_image(
           [S EXCEPT !.views = Append(S.views, this),
                     !.subscriptions = S.subscriptions \cup
                         (IF IsSome(subscription) THEN {Unwrap(subscription)} ELSE {})],
           v, text)

\* SvgPreviewView::new, for the view that becomes views[Len(views) + 1]
new(S, mode, e, text) ==
    LET v == Len(S.views) + 1
        buffer == as_singleton(e)
        subscription == IF IsSome(buffer)
                        THEN Some(create_buffer_subscription(Unwrap(buffer), v))
                        ELSE None
        this == [mode |-> mode,
                 buffer |-> buffer,
                 error |-> None,
                 current_svg |-> None,
                 scale_factor |-> ScaleInit,
                 drag_start |-> Origin,
                 image_offset |-> Origin,
                 buffer_subscription |-> subscription,
                 workspace_subscription |-> (mode = "Follow"),
                 refresh |-> 0]
    IN render_image(
           [S EXCEPT !.views = Append(S.views, this),
                     !.subscriptions = S.subscriptions \cup
                         (IF IsSome(subscription) THEN {Unwrap(subscription)} ELSE {})],
           v, text)

----------------------------------------------------------------------------
(* Event handlers of one view *)

\* A variant of the ActiveItemChanged handler that keeps the old buffer
\* subscription alive next to the new one.
on_active_item_changed_leaky(S, v, item, text) ==
    IF item[1] = "editor" /\ is_svg_file(item[2])
    THEN LET buffer == as_singleton(item[2]) IN
         IF ~IsSome(buffer) THEN S
         ELSE IF S.views[v].buffer # buffer
         THEN LET sub == create_buffer_subscription(Unwrap(buffer), v)
              IN render_image(
                     [S EXCEPT !.subscriptions = S.subscriptions \cup {sub},
                               !.views[v].buffer_subscription = Some(sub),
                               !.views[v].buffer = buffer],
                     v, text)
         ELSE S
    ELSE S

\* A variant of the ActiveItemChanged handler that rebinds to any singleton
\* editor, without the is_svg_file test.
on_active_item_changed_ungated(S, v, item, text) ==
    IF item[1] = "editor"
    THEN LET buffer == as_singleton(item[2]) IN
         IF ~IsSome(buffer) THEN S
         ELSE IF S.views[v].buffer # buffer
         THEN LET sub == create_buffer_subscription(Unwrap(buffer), v)
              IN render_image(
                     [S EXCEPT !.subscriptions =
                                   DropSubscription(S.subscriptions \cup {sub},
                                                    S.views[v].buffer_subscription),
                               !.views[v].buffer_subscription = Some(sub),
                               !.views[v].buffer = buffer],
                     v, text)
         ELSE S
    ELSE S

\* A variant of the ActiveItemChanged handler that blanks the panel when it
\* rebinds.
on_active_item_changed_clearing(S, v, item, text) ==
    IF item[1] = "editor" /\ is_svg_file(item[2])
    THEN LET buffer == as_singleton(item[2]) IN
         IF ~IsSome(buffer) THEN S
         ELSE IF S.views[v].buffer # buffer
         THEN LET sub == create_buffer_subscription(Unwrap(buffer), v)
              IN render_image(
                     [S EXCEPT !.subscriptions =
                                   DropSubscription(S.subscriptions \cup {sub},
                                                    S.views[v].buffer_subscription),
                               !.views[v].buffer_subscription = Some(sub),
                               !.views[v].buffer = buffer,
                               !.views[v].current_svg = None,
                               !.views[v].error = None],
                     v, text)
         ELSE S
    ELSE S

\* The workspace::Event::ActiveItemChanged callback of subscribe_to_workspace
on_active_item_changed(S, v, item, text) ==
    IF item[1] = "editor" /\ is_svg_file(item[2])
    THEN LET buffer == as_singleton(item[2]) IN
         IF ~IsSome(buffer) THEN S
         ELSE IF S.views[v].buffer # buffer
         THEN LET sub == create_buffer_subscription(Unwrap(buffer), v)
              IN render_image(
                     [S EXCEPT !.subscriptions =
                                   DropSubscription(S.subscriptions \cup {sub},
                                                    S.views[v].buffer_subscription),
                               !.views[v].buffer_subscription = Some(sub),
                               !.views[v].buffer = buffer],
                     v, text)
         ELSE S
    ELSE S

\* A variant of the BufferEvent callback that renders on every event.
on_buffer_event_any(S, v, event, text) == render_image(S, v, text)

\* A variant of the BufferEvent callback that renders on Saved only.
on_buffer_event_saved_only(S, v, event, text) ==
    IF event = "Saved" THEN render_image(S, v, text) ELSE S

\* The BufferEvent callback of create_buffer_subscription
on_buffer_event(S, v, event, text) ==
    IF event \in {"Edited", "Saved"} THEN render_image(S, v, text) ELSE S

Min(set) == CHOOSE x \in set : \A y \in set : x <= y

\* An ActiveItemChanged event reaches every view that holds a workspace
\* subscription, in creation order.
RECURSIVE EmitActiveItemChanged(_, _, _, _)
EmitActiveItemChanged(S, vs, item, text) ==
    IF vs = {} THEN S
    ELSE EmitActiveItemChanged(on_active_item_changed(S, Min(vs), item, text),
                               vs \ {Min(vs)}, item, text)

\* A BufferEvent reaches every view whose subscription is registered with
\* the buffer, in creation order.
RECURSIVE EmitBufferEvent(_, _, _, _)
EmitBufferEvent(S, vs, event, text) ==
    IF vs = {} THEN S
    ELSE EmitBufferEvent(on_buffer_event(S, Min(vs), event, text),
                         vs \ {Min(vs)}, event, text)

Subscribers(b) == {s.view : s \in {x \in subscriptions : x.buffer = b}}

Followers == {v \in 1..Len(views) : views[v].workspace_subscription}

\* Install the outcome of the handlers that ran, within the model's bound on
\* the number of renders.
Install(S) ==
    /\ S.next_task <= MaxRenders
    /\ views' = S.views
    /\ subscriptions' = S.subscriptions
    /\ tasks' = S.tasks
    /\ next_task' = S.next_task

----------------------------------------------------------------------------
(* Inputs *)

Modes == {"Default", "Follow"}

BufferEvents == {"Edited", "Saved", "Reloaded"}

\* the buffer the user edits and saves
EditedBuffers == {1}

\* vertical wheel deltas, in quarter units
WheelDeltas == {-79, 0, 79}

\* pointer positions and element origins of drag events
Positions == {<<5, 5>>, <<15, 15>>, <<20, 20>>}
Origins == {<<0, 0>>, <<5, 0>>}

\* items the workspace activates: every kind of item, and the ones the
\* render pipeline is exercised with (a.svg, icon.SVG, the composite, b.png)
AllItems ==
    {NoItem, OtherItem} \cup {EditorItem(e) : e \in Editors}
        \cup {PreviewItem(panes[1][i]) : i \in 1..Len(panes[1])}

ActivatableItems ==
    {NoItem} \cup {EditorItem(e) : e \in {1, 2, 3, 5}}
        \cup {PreviewItem(panes[1][i]) : i \in 1..Len(panes[1])}

----------------------------------------------------------------------------
(* Initial state: a workspace with its editors open and no preview *)

Init ==
    /\ buffer_text = [b \in Buffers |->
                         IF b = 2 THEN "<svg>rect</svg>" ELSE "<svg>circle</svg>"]
    /\ active_item = NoItem
    /\ panes = <<(<<>>)>>
    /\ views = <<>>
    /\ subscriptions = {}
    /\ tasks = {}
    /\ next_task = 0
    /\ active_drag = None
    /\ drop_image_calls = {}
    /\ closed = {}

----------------------------------------------------------------------------
(* Host events *)

\* The workspace makes `item` its active item and emits ActiveItemChanged.
ActiveItemChanged(item) ==
    /\ active_item' = item
    /\ Install(EmitActiveItemChanged(Current, Followers, item, buffer_text))
    /\ UNCHANGED <<buffer_text, panes, active_drag, drop_image_calls, closed>>

\* The user edits buffer b: its text becomes `text` and it emits Edited.
BufferEdited(b, text) ==
    /\ buffer_text' = [buffer_text EXCEPT ![b] = text]
    /\ Install(EmitBufferEvent(Current, Subscribers(b), "Edited", buffer_text'))
    /\ UNCHANGED <<active_item, panes, active_drag, drop_image_calls, closed>>

\* Buffer b emits an event that leaves its text alone (Saved, Reloaded).
BufferEvent(b, event) ==
    /\ Install(EmitBufferEvent(Current, Subscribers(b), event, buffer_text))
    /\ UNCHANGED <<buffer_text, active_item, panes, active_drag, drop_image_calls, closed>>

----------------------------------------------------------------------------
(* Commands registered by register *)

\* find_existing_preview_item_idx: the first SvgPreviewView of the pane whose
\* buffer entity id equals the entity id of the editor's MultiBuffer
find_existing_preview_item_idx(pane, e) ==
    LET buffer_id == MultiBufferEntityId(e)
        found == {i \in 1..Len(pane) :
                     /\ IsSome(views[pane[i]].buffer)
                     /\ BufferEntityId(Unwrap(views[pane[i]].buffer)) = buffer_id}
    IN IF found = {} THEN None ELSE Some(Min(found))

\* The tail of the OpenPreview handlers: activate the existing preview of
\* pane p, or add the view just created to it.  A view that is not added is
\* dropped when the handler returns, with its task and its subscription.
ActivateOrAdd(p, ps, e, mode, activate) ==
    LET existing == find_existing_preview_item_idx(ps[p], e) IN
    IF IsSome(existing)
    THEN /\ active_item' = PreviewItem(ps[p][Unwrap(existing)])
         /\ panes' = ps
         /\ Install([Current EXCEPT
                 !.tasks = DropTask(new(Current, mode, e, buffer_text).tasks,
                                    next_task + 1),
                 !.next_task = next_task + 1])
    ELSE /\ Len(views) < MaxViews
         /\ Install(new(Current, mode, e, buffer_text))
         /\ panes' = [ps EXCEPT ![p] = Append(ps[p], Len(views) + 1)]
         /\ active_item' = IF activate THEN PreviewItem(Len(views) + 1) ELSE active_item

\* OpenPreview
OpenPreview ==
    /\ IF IsSome(resolve_active_item_as_svg_editor(active_item))
          /\ is_svg_file(Unwrap(resolve_active_item_as_svg_editor(active_item)))
       THEN ActivateOrAdd(1, panes, Unwrap(resolve_active_item_as_svg_editor(active_item)),
                          "Default", TRUE)
       ELSE UNCHANGED <<active_item, panes, views, subscriptions, tasks, next_task>>
    /\ UNCHANGED <<buffer_text, active_drag, drop_image_calls, closed>>

\* OpenPreviewToTheSide: the pane to the right of the active pane, split off
\* when there is none
OpenPreviewToTheSide ==
    /\ IF IsSome(resolve_active_item_as_svg_editor(active_item))
          /\ is_svg_file(Unwrap(resolve_active_item_as_svg_editor(active_item)))
       THEN ActivateOrAdd(2, IF Len(panes) >= 2 THEN panes ELSE Append(panes, <<>>),
                          Unwrap(resolve_active_item_as_svg_editor(active_item)),
                          "Default", FALSE)
       ELSE UNCHANGED <<active_item, panes, views, subscriptions, tasks, next_task>>
    /\ UNCHANGED <<buffer_text, active_drag, drop_image_calls, closed>>

\* OpenFollowingPreview
OpenFollowingPreview ==
    /\ IF IsSome(resolve_active_item_as_svg_editor(active_item))
          /\ is_svg_file(Unwrap(resolve_active_item_as_svg_editor(active_item)))
       THEN /\ Len(views) < MaxViews
            /\ Install(new(Current, "Follow",
                           Unwrap(resolve_active_item_as_svg_editor(active_item)),
                           buffer_text))
            /\ panes' = [panes EXCEPT ![1] = Append(panes[1], Len(views) + 1)]
            /\ active_item' = PreviewItem(Len(views) + 1)
       ELSE UNCHANGED <<active_item, panes, views, subscriptions, tasks, next_task>>
    /\ UNCHANGED <<buffer_text, active_drag, drop_image_calls, closed>>

----------------------------------------------------------------------------
(* The render continuation (the closure given to spawn_in) *)

TaskOf(id) == CHOOSE t \in tasks : t.id = id

\* A variant of the continuation whose Err arm also forgets the image.
ApplyResult_blanking(view, result) ==
    IF result.ok
    THEN [view EXCEPT !.current_svg = result.image, !.error = None]
    ELSE [view EXCEPT !.current_svg = None, !.error = Some(result.err)]

\* A variant of the continuation whose Ok arm keeps the error.
ApplyResult_sticky(view, result) ==
    IF result.ok
    THEN [view EXCEPT !.current_svg = result.image]
    ELSE [view EXCEPT !.error = Some(result.err)]

\* this.update_in(cx, |view, window, cx| match result { .. })
ApplyResult(view, result) ==
    IF result.ok
    THEN [view EXCEPT !.current_svg = result.image, !.error = None]
    ELSE [view EXCEPT !.error = Some(result.err)]

\* A variant of the continuation that never hands the old image to
\* window.drop_image.
ImagesDropped_never(view, result) == {}

\* if let Some(image) = view.current_svg.take() { window.drop_image(image).ok(); }
\* in the Ok arm: the images handed to window.drop_image
ImagesDropped(view, result) ==
    IF result.ok /\ IsSome(view.current_svg)
    THEN {Unwrap(view.current_svg).id}
    ELSE {}

\* The background render of task id finishes and its continuation runs on
\* the UI thread; update_in fails when the view is gone.  `ok` is the outcome
\* of window.drop_image, which the continuation discards.
RenderFinished(id, ok) ==
    /\ \E t \in tasks : t.id = id /\ ~t.cancelled
    /\ LET t == TaskOf(id)
           result == render_single_frame(t.id, t.content, t.scale_factor)
       IN IF t.view \in closed
          THEN UNCHANGED <<views, drop_image_calls>>
          ELSE /\ views' = [views EXCEPT ![t.view] = ApplyResult(views[t.view], result)]
               /\ drop_image_calls' = drop_image_calls \cup
                      {[id |-> i, ok |-> ok] : i \in ImagesDropped(views[t.view], result)}
    /\ tasks' = tasks \ {TaskOf(id)}
    /\ UNCHANGED <<buffer_text, active_item, panes, subscriptions, next_task, active_drag, closed>>

\* A task whose handle was dropped is released by the executor; its
\* continuation does not run.
CancelledTaskReleased(id) ==
    /\ \E t \in tasks : t.id = id /\ t.cancelled
    /\ tasks' = tasks \ {TaskOf(id)}
    /\ UNCHANGED <<buffer_text, active_item, panes, views, subscriptions, next_task, active_drag, drop_image_calls, closed>>

----------------------------------------------------------------------------
(* Pointer and wheel input: the listeners Render::render installs while    *)
(* current_svg is Some                                                     *)

Abs(x) == IF x < 0 THEN -x ELSE x

\* A variant of clamp without the upper bound.
clamp_unbounded(x, lo, hi) == IF x < lo THEN lo ELSE x

\* f32::clamp
clamp(x, lo, hi) == IF x < lo THEN lo ELSE IF x > hi THEN hi ELSE x

\* A variant of Render::render that installs the listeners whether or not
\* an image is held.
ListenersInstalled_always(view) == TRUE

\* if let Some(content) = self.current_svg.clone(): the drag and wheel
\* listeners exist only in the Some arm of Render::render
ListenersInstalled(view) == IsSome(view.current_svg)

\* Render::render: what the panel shows, as a function of the view.  Neither
\* arm reads self.error.  The fallback of img ("Failed to load SVG file" with
\* the Warning icon) stands in for an image that cannot be loaded; the image
\* held in current_svg is an already rasterized one, so the fallback is not
\* what is shown.
render(view) ==
    IF ListenersInstalled(view)
    THEN [listeners |-> TRUE,
          image |-> view.current_svg,
          left_top |-> view.image_offset,
          text |-> None,
          icon |-> None]
    ELSE [listeners |-> FALSE,
          image |-> None,
          left_top |-> Origin,
          text |-> Some("No SVG file selected"),
          icon |-> None]

\* A variant of the wheel listener that re-renders on a zero delta too.
on_scroll_wheel_unconditional(S, v, delta, text) ==
    render_image(
        [S EXCEPT !.views[v].scale_factor =
             clamp(S.views[v].scale_factor + delta, ScaleMin, ScaleMax)],
        v, text)

\* The on_scroll_wheel listener
on_scroll_wheel(S, v, delta, text) ==
    IF Abs(delta) # 0
    THEN render_image(
             [S EXCEPT !.views[v].scale_factor =
                  clamp(S.views[v].scale_factor + delta, ScaleMin, ScaleMax)],
             v, text)
    ELSE S

\* A wheel event over view v: it reaches the on_scroll_wheel listener when
\* the element has one, and nothing otherwise.
ScrollWheel(v, delta) ==
    /\ v \in 1..Len(views) \ closed
    /\ IF render(views[v]).listeners
       THEN Install(on_scroll_wheel(Current, v, delta, buffer_text))
       ELSE UNCHANGED <<views, subscriptions, tasks, next_task>>
    /\ UNCHANGED <<buffer_text, active_item, panes, active_drag, drop_image_calls, closed>>

\* on_drag: a drag starts on view v; the constructor closure stores the
\* position it is given, and the drag carries DragStart { initial_offset }.
\* An element without the listener starts no drag.
OnDrag(v, position) ==
    /\ v \in 1..Len(views) \ closed
    /\ active_drag = None
    /\ IF render(views[v]).listeners
       THEN /\ views' = [views EXCEPT ![v].drag_start = position]
            /\ active_drag' = Some([view |-> v, initial_offset |-> views[v].image_offset])
       ELSE UNCHANGED <<views, active_drag>>
    /\ UNCHANGED <<buffer_text, active_item, panes, subscriptions, tasks, next_task, drop_image_calls, closed>>

InPan(p) == Abs(p[1]) <= MaxPan /\ Abs(p[2]) <= MaxPan

\* A variant of the drag offset that adds to the current offset instead of
\* the offset at drag start.
drag_offset_accumulating(view, initial_offset, position, origin) ==
    PointSub(PointSub(PointAdd(view.image_offset, position), origin), view.drag_start)

\* initial_offset + event.position - bounds.origin - this.drag_start
drag_offset(view, initial_offset, position, origin) ==
    PointSub(PointSub(PointAdd(initial_offset, position), origin), view.drag_start)

\* on_drag_move
OnDragMove(position, origin) ==
    /\ IsSome(active_drag)
    /\ LET v == Unwrap(active_drag).view
           offset == drag_offset(views[v], Unwrap(active_drag).initial_offset,
                                 position, origin)
       IN /\ InPan(offset)
          /\ views' = [views EXCEPT ![v].image_offset = offset]
    /\ UNCHANGED <<buffer_text, active_item, panes, subscriptions, tasks, next_task, active_drag, drop_image_calls, closed>>

\* The pointer is released: the drag ends.
DragEnd ==
    /\ IsSome(active_drag)
    /\ active_drag' = None
    /\ UNCHANGED <<buffer_text, active_item, panes, views, subscriptions, tasks, next_task, drop_image_calls, closed>>

----------------------------------------------------------------------------
(* Closing a preview *)

RemoveItem(items, v) == SelectSeq(items, LAMBDA i : i # v)

\* The pane item of view v, not the active item, is closed and the entity is
\* dropped with its fields: _refresh, _buffer_subscription,
\* _workspace_subscription and the Arc in current_svg.  Nothing calls
\* window.drop_image.
CloseItem(v) ==
    /\ v \in 1..Len(views) \ closed
    /\ active_item # PreviewItem(v)
    /\ active_drag = None
    /\ closed' = closed \cup {v}
    /\ panes' = [p \in 1..Len(panes) |-> RemoveItem(panes[p], v)]
    /\ tasks' = DropTask(tasks, views[v].refresh)
    /\ subscriptions' = DropSubscription(subscriptions, views[v].buffer_subscription)
    /\ views' = [views EXCEPT ![v].buffer_subscription = None,
                              ![v].workspace_subscription = FALSE]
    /\ UNCHANGED <<buffer_text, active_item, next_task, active_drag, drop_image_calls>>

----------------------------------------------------------------------------
(* The specification *)

\* Everything but dragging.
Next ==
    \/ \E item \in ActivatableItems : ActiveItemChanged(item)
    \/ \E b \in EditedBuffers, text \in Texts : BufferEdited(b, text)
    \/ \E b \in EditedBuffers, event \in BufferEvents \ {"Edited"} : BufferEvent(b, event)
    \/ OpenPreview
    \/ OpenPreviewToTheSide
    \/ OpenFollowingPreview
    \/ \E id \in 1..MaxRenders + 1 : RenderFinished(id, TRUE)
    \/ \E id \in 1..MaxRenders + 1 : CancelledTaskReleased(id)
    \/ \E v \in 1..MaxViews + 1, delta \in WheelDeltas : ScrollWheel(v, delta)

Spec == Init /\ [][Next]_vars

\* Activations of every kind of item, and the commands, with the documents
\* left unedited.
GateNext ==
    \/ \E item \in AllItems : ActiveItemChanged(item)
    \/ OpenPreview
    \/ OpenPreviewToTheSide
    \/ OpenFollowingPreview
    \/ \E id \in 1..MaxRenders + 1 : RenderFinished(id, TRUE)
    \/ \E id \in 1..MaxRenders + 1 : CancelledTaskReleased(id)

GateSpec == Init /\ [][GateNext]_vars

\* Dragging in one preview of a.svg.
PanNext ==
    \/ ActiveItemChanged(EditorItem(1))
    \/ (views = <<>> /\ OpenPreview)
    \/ \E id \in 1..MaxRenders + 1 : RenderFinished(id, TRUE)
    \/ \E v \in 1..MaxViews + 1, position \in Positions : OnDrag(v, position)
    \/ \E position \in Positions, origin \in Origins : OnDragMove(position, origin)
    \/ DragEnd

PanSpec == Init /\ [][PanNext]_vars

\* The life of previews of a.svg: opened, edited, re-rendered with either
\* outcome of window.drop_image, and closed.
LifeNext ==
    \/ ActiveItemChanged(EditorItem(1))
    \/ \E text \in Texts : BufferEdited(1, text)
    \/ OpenPreview
    \/ OpenFollowingPreview
    \/ \E id \in 1..MaxRenders + 1, ok \in BOOLEAN : RenderFinished(id, ok)
    \/ \E id \in 1..MaxRenders + 1 : CancelledTaskReleased(id)
    \/ \E v \in 1..MaxViews + 1 : CloseItem(v)

LifeSpec == Init /\ [][LifeNext]_vars

\* The events of a.svg (Edited, Saved, Reloaded) with previews of both modes
\* bound to a.svg and to icon.SVG.
EventNext ==
    \/ \E item \in {EditorItem(1), EditorItem(2)} : ActiveItemChanged(item)
    \/ \E text \in Texts : BufferEdited(1, text)
    \/ \E event \in BufferEvents \ {"Edited"} : BufferEvent(1, event)
    \/ OpenPreview
    \/ OpenFollowingPreview
    \/ \E id \in 1..MaxRenders + 1 : RenderFinished(id, TRUE)
    \/ \E id \in 1..MaxRenders + 1 : CancelledTaskReleased(id)

EventSpec == Init /\ [][EventNext]_vars

\* One Follow preview under every input: activations of a.svg and icon.SVG,
\* edits, render completions, wheel events and a drag.
InputNext ==
    \/ \E item \in {EditorItem(1), EditorItem(2)} : ActiveItemChanged(item)
    \/ \E text \in Texts : BufferEdited(1, text)
    \/ (views = <<>> /\ OpenFollowingPreview)
    \/ \E id \in 1..MaxRenders + 1 : RenderFinished(id, TRUE)
    \/ \E id \in 1..MaxRenders + 1 : CancelledTaskReleased(id)
    \/ \E v \in 1..MaxViews + 1, delta \in WheelDeltas : ScrollWheel(v, delta)
    \/ \E v \in 1..MaxViews + 1 : OnDrag(v, <<5, 5>>)
    \/ \E position \in {<<15, 15>>, <<20, 20>>} : OnDragMove(position, Origin)
    \/ DragEnd

InputSpec == Init /\ [][InputNext]_vars

----------------------------------------------------------------------------
(* Vocabulary of the properties *)

ViewIds == 1..Len(views)

\* the render tasks of view v that are spawned in this step
Submitted(v) == {t \in tasks' : t.view = v /\ t.id > next_task}

\* task t is pending and its continuation runs in this step
Resolves(t) == t \in tasks /\ ~t.cancelled /\ \A u \in tasks' : u.id # t.id

\* the most recently submitted render of view v has resolved
LatestResolved(v) == views[v].refresh # 0 /\ \A t \in tasks : t.id # views[v].refresh

\* The documents the eligibility rule admits: a.svg and icon.SVG, each the
\* single buffer of its editor (editors 1, 2 and 8).
EligibleBuffers == {1, 2}
QualifyingItems == {EditorItem(1), EditorItem(2), EditorItem(8)}

DocumentOf(item) == Some(IF item[2] = 2 THEN 2 ELSE 1)

----------------------------------------------------------------------------
(* Properties *)

\* C1: a render changes current_svg or error of a view only if, when its
\* result is delivered, it is the most recently submitted render of that
\* view; the result of a superseded render never changes the view.
C1_OnlyLatestRenderApplies ==
    [][\A v \in ViewIds :
          (views'[v].current_svg # views[v].current_svg \/ views'[v].error # views[v].error)
              => \E t \in tasks :
                    /\ t.view = v
                    /\ Resolves(t)
                    /\ t.id = views[v].refresh
                    /\ \A u \in tasks : u.view = v => u.id <= t.id]_vars

\* A view shows the image of its latest render while a superseded render of
\* it is still running.
C1_Witness ==
    \E v \in ViewIds :
        /\ IsSome(views[v].current_svg)
        /\ Unwrap(views[v].current_svg).id = views[v].refresh
        /\ \E t \in tasks : t.view = v /\ t.cancelled /\ t.id < views[v].refresh

\* C2 as stated: once the latest render of a bound view has resolved, the
\* image shown is the one of the document's current text, never the one of
\* an earlier text.
C2_ImageReflectsFinalEdit ==
    \A v \in ViewIds :
        (IsSome(views[v].buffer) /\ LatestResolved(v) /\ IsSome(views[v].current_svg))
            => Unwrap(views[v].current_svg).src = buffer_text[Unwrap(views[v].buffer)]

\* C2 amended: once the latest render of a bound view has resolved, then if
\* the document's current text rasterizes the image shown is the one of that
\* text at the current scale and no error is held, and if it does not, the
\* error is held (and the image is a stale one or none).
C2_ImageReflectsFinalEditIfItRenders ==
    \A v \in ViewIds :
        (IsSome(views[v].buffer) /\ LatestResolved(v))
            => IF buffer_text[Unwrap(views[v].buffer)] \in Malformed
               THEN IsSome(views[v].error)
               ELSE /\ IsSome(views[v].current_svg)
                    /\ Unwrap(views[v].current_svg).src = buffer_text[Unwrap(views[v].buffer)]
                    /\ Unwrap(views[v].current_svg).scale = views[v].scale_factor
                    /\ Unwrap(views[v].current_svg).id = views[v].refresh
                    /\ views[v].error = None

\* The render of a later edit is shown although an earlier render of the
\* same view has not finished.
C2_Witness ==
    \E v \in ViewIds :
        /\ IsSome(views[v].buffer) /\ LatestResolved(v)
        /\ IsSome(views[v].current_svg)
        /\ Unwrap(views[v].current_svg).src = buffer_text[Unwrap(views[v].buffer)]
        /\ Unwrap(views[v].current_svg).src = "<svg>rect</svg>"
        /\ \E t \in tasks : t.view = v /\ t.cancelled /\ t.content = "<svg>circle</svg>"

\* C3: a failing render keeps the image and sets a non-empty error; the image
\* changes only together with the error being cleared, and a held error is
\* cleared only together with a new image being installed.
C3_FailureKeepsImageSuccessSwapsBoth ==
    [][\A v \in ViewIds :
          /\ \A t \in tasks :
                (t.view = v /\ Resolves(t) /\ t.content \in Malformed)
                    => /\ views'[v].current_svg = views[v].current_svg
                       /\ IsSome(views'[v].error)
                       /\ Unwrap(views'[v].error) # ""
          /\ views'[v].current_svg # views[v].current_svg
                => IsSome(views'[v].current_svg) /\ views'[v].error = None
          /\ (IsSome(views[v].error) /\ views'[v].error = None)
                => /\ IsSome(views'[v].current_svg)
                   /\ views'[v].current_svg # views[v].current_svg]_vars

\* A render failed after an earlier one succeeded: the stale image and the
\* error are both held, and the document is malformed.
C3_Witness ==
    \E v \in ViewIds :
        /\ IsSome(views[v].current_svg)
        /\ IsSome(views[v].error)
        /\ LatestResolved(v)
        /\ buffer_text[Unwrap(views[v].buffer)] \in Malformed

\* C4 as stated: the image and the error are never both present.
C4_ImageAndErrorExclusive ==
    \A v \in ViewIds : ~(IsSome(views[v].current_svg) /\ IsSome(views[v].error))

\* C4 amended: after a render that succeeds the image is present and the
\* error absent; after a render that fails the error is present, and the image
\* is present with it exactly when an image was held before (the stale one).
C4_ExclusiveAfterSuccess ==
    [][\A t \in tasks :
          Resolves(t) =>
              IF t.content \in Malformed
              THEN /\ IsSome(views'[t.view].error)
                   /\ IsSome(views'[t.view].current_svg) = IsSome(views[t.view].current_svg)
              ELSE /\ IsSome(views'[t.view].current_svg)
                   /\ ~IsSome(views'[t.view].error)]_vars

\* A render failed while an image was held: the error is held together
\* with the image of an earlier render.
C4_Witness ==
    \E v \in ViewIds :
        /\ IsSome(views[v].current_svg)
        /\ IsSome(views[v].error)
        /\ Unwrap(views[v].current_svg).id < views[v].refresh

\* C5: the scale factor of a view starts at 1.0 and stays within
\* [0.25, 20.0]; it changes only to the clamped sum of itself and a nonzero
\* wheel delta; a wheel event with a zero delta changes nothing.
C5_ScaleWithinBounds ==
    /\ [](\A v \in ViewIds : views[v].scale_factor >= 1 /\ views[v].scale_factor <= 80)
    /\ [][/\ Len(views') > Len(views) => views'[Len(views')].scale_factor = 4
          /\ \A v \in ViewIds :
                views'[v].scale_factor # views[v].scale_factor
                    => \E delta \in WheelDeltas \ {0} :
                          LET sum == views[v].scale_factor + delta
                          IN views'[v].scale_factor =
                                 IF sum < 1 THEN 1 ELSE IF sum > 80 THEN 80 ELSE sum
          /\ \A v \in ViewIds : ScrollWheel(v, 0) => UNCHANGED vars]_vars

\* Wheel events took a view to 20.0 by an exact sum (0.25 + 19.75) after the
\* lower clamp took it to 0.25.
C5_Witness ==
    \E v \in ViewIds :
        /\ views[v].scale_factor = 80
        /\ \E t \in tasks : t.view = v /\ t.scale_factor = 1

\* C6: a view holds exactly one buffer subscription and it is on its bound
\* document; a step that changes the binding of a view is a follow rebind to
\* the singleton document of the newly active qualifying editor, submits
\* exactly one render of it, registers the new subscription and releases the
\* old one; and an Edited or Saved event of a document a view is not bound
\* to leaves the view alone and submits no render for it.
C6_RebindSwapsSubscription ==
    /\ [](\A v \in ViewIds :
             /\ IsSome(views[v].buffer)
             /\ {s \in subscriptions : s.view = v}
                    = {[buffer |-> Unwrap(views[v].buffer), view |-> v]}
             /\ views[v].buffer_subscription
                    = Some([buffer |-> Unwrap(views[v].buffer), view |-> v]))
    /\ [][/\ \A v \in ViewIds :
                views'[v].buffer # views[v].buffer
                    => /\ views[v].mode = "Follow"
                       /\ active_item' \in QualifyingItems
                       /\ views'[v].buffer = DocumentOf(active_item')
                       /\ Cardinality(Submitted(v)) = 1
                       /\ \A t \in Submitted(v) :
                             /\ t.content = buffer_text[Unwrap(views'[v].buffer)]
                             /\ t.id = views'[v].refresh
                             /\ ~t.cancelled
                       /\ \A t \in tasks' : (t.view = v /\ t.id <= next_task) => t.cancelled
                       /\ Unwrap(views[v].buffer_subscription) \notin subscriptions'
          /\ \A item \in QualifyingItems, v \in ViewIds :
                (active_item' = item /\ views[v].mode = "Follow"
                    /\ views[v].buffer # DocumentOf(item) /\ ActiveItemChanged(item))
                    => views'[v].buffer = DocumentOf(item)
          /\ \A b \in EditedBuffers, v \in ViewIds :
                (views[v].buffer # Some(b)
                    /\ (buffer_text'[b] # buffer_text[b] \/ BufferEvent(b, "Saved")))
                    => views'[v] = views[v] /\ Submitted(v) = {}]_vars

\* A following view was rebound from a.svg to icon.SVG: it is subscribed to
\* icon.SVG alone, its first render (of a.svg) is cancelled and the render of
\* icon.SVG is pending.
C6_Witness ==
    \E v \in ViewIds :
        /\ views[v].mode = "Follow"
        /\ views[v].buffer = Some(2)
        /\ {s \in subscriptions : s.view = v} = {[buffer |-> 2, view |-> v]}
        /\ \E t \in tasks : t.view = v /\ t.cancelled /\ t.content = buffer_text[1]
        /\ \E t \in tasks : t.view = v /\ ~t.cancelled /\ t.content = buffer_text[2]
        /\ buffer_text[1] # buffer_text[2]

\* C7: an ActiveItemChanged event leaves a view alone (binding, subscription,
\* image, error, pending render) and submits no render for it unless the
\* view follows, the newly active item qualifies and its document is not the
\* one the view is bound to.
C7_NonQualifyingActivationIsNoOp ==
    [][\A item \in AllItems :
          ActiveItemChanged(item)
              => \A v \in ViewIds :
                    (\/ views[v].mode # "Follow"
                     \/ item \notin QualifyingItems
                     \/ (item \in QualifyingItems /\ DocumentOf(item) = views[v].buffer))
                        => /\ views'[v] = views[v]
                           /\ {t \in tasks' : t.view = v} = {t \in tasks : t.view = v}
                           /\ {s \in subscriptions' : s.view = v}
                                  = {s \in subscriptions : s.view = v}]_vars

\* A following view that holds an image of a.svg while the active item is
\* the editor of the file named .svg.
C7_Witness ==
    \E v \in ViewIds :
        /\ views[v].mode = "Follow"
        /\ views[v].buffer = Some(1)
        /\ IsSome(views[v].current_svg)
        /\ active_item = EditorItem(6)

\* C8: every bound document is an eligible one (a singleton document whose
\* file has the extension svg in any letter case); a view is created only by
\* a command on a qualifying active editor and is bound to that editor's
\* document; a binding changes only to the document of the qualifying editor
\* that became active; and a command on an item that does not qualify
\* changes nothing.
C8_EligibilityGatesBinding ==
    /\ [](\A v \in ViewIds :
             IsSome(views[v].buffer) /\ Unwrap(views[v].buffer) \in EligibleBuffers)
    /\ [][/\ Len(views') > Len(views)
                => /\ Len(views') = Len(views) + 1
                   /\ active_item \in QualifyingItems
                   /\ views'[Len(views')].buffer = DocumentOf(active_item)
          /\ \A v \in ViewIds :
                views'[v].buffer # views[v].buffer
                    => /\ active_item' \in QualifyingItems
                       /\ views'[v].buffer = DocumentOf(active_item')
          /\ ((OpenPreview \/ OpenPreviewToTheSide \/ OpenFollowingPreview)
                 /\ active_item \notin QualifyingItems)
                => UNCHANGED vars]_vars

\* A preview opened by a command is bound to icon.SVG, while a preview of
\* a.svg exists as well.
C8_Witness ==
    \E v, w \in ViewIds :
        /\ views[v].mode = "Default"
        /\ views[v].buffer = Some(2)
        /\ views[w].buffer = Some(1)

\* C9: an OpenPreview or OpenPreviewToTheSide command adds a preview item to
\* a pane only if the pane holds no preview of the same document.
C9_NoSecondPreviewOfDocumentInPane ==
    [][\A p \in 1..Len(panes) :
          (Len(panes'[p]) > Len(panes[p])
              /\ views'[panes'[p][Len(panes'[p])]].mode = "Default")
              => \A i \in 1..Len(panes[p]) :
                    views[panes[p][i]].buffer
                        # views'[panes'[p][Len(panes'[p])]].buffer]_vars

\* C10: a drag start records the position it is given in drag_start and the
\* current image_offset as the base of the drag; every move sets image_offset
\* to base + (position - origin) - drag_start, whatever the earlier moves of
\* the drag; and a move whose position relative to the origin is drag_start
\* yields the base offset.
C10_DragMoveOffset ==
    [][/\ \A v \in ViewIds, position \in Positions :
             OnDrag(v, position)
                 => /\ views'[v].drag_start = position
                    /\ Unwrap(active_drag').initial_offset = views[v].image_offset
                    /\ views'[v].image_offset = views[v].image_offset
       /\ \A position \in Positions, origin \in Origins :
             OnDragMove(position, origin)
                 => LET v == Unwrap(active_drag).view
                        base == Unwrap(active_drag).initial_offset
                        anchor == views[v].drag_start
                    IN /\ views'[v].image_offset[1]
                              = base[1] + (position[1] - origin[1]) - anchor[1]
                       /\ views'[v].image_offset[2]
                              = base[2] + (position[2] - origin[2]) - anchor[2]
                       /\ <<position[1] - origin[1], position[2] - origin[2]>> = anchor
                              => views'[v].image_offset = base
                       /\ active_drag' = active_drag
                       /\ views'[v].drag_start = anchor
       /\ \A v \in ViewIds :
             views'[v].image_offset # views[v].image_offset
                 => IsSome(active_drag) /\ Unwrap(active_drag).view = v]_vars

\* The drag of the example: base (10,10), anchor (5,5), a move to (20,20)
\* with origin (0,0) has set the offset to (25,25).
C10_Witness ==
    \E v \in ViewIds :
        /\ IsSome(active_drag)
        /\ Unwrap(active_drag) = [view |-> v, initial_offset |-> <<10, 10>>]
        /\ views[v].drag_start = <<5, 5>>
        /\ views[v].image_offset = <<25, 25>>

\* C11: a view in Default mode never holds a subscription to the workspace's
\* activation events, and no step changes the document it is bound to or
\* its document subscription: the binding made at construction is fixed
\* whatever item the workspace activates.
C11_DefaultModeBindingFixed ==
    /\ [](\A v \in ViewIds :
             views[v].mode = "Default" => ~views[v].workspace_subscription)
    /\ [][\A v \in ViewIds :
             views[v].mode = "Default"
                 => /\ views'[v].mode = "Default"
                    /\ views'[v].buffer = views[v].buffer
                    /\ views'[v].buffer_subscription = views[v].buffer_subscription]_vars

\* a Default preview of a.svg shows its image, still bound to a.svg, after
\* the workspace activated the editor of icon.SVG
C11_Witness ==
    \E v \in ViewIds :
        /\ views[v].mode = "Default"
        /\ views[v].buffer = Some(1)
        /\ views[v].buffer_subscription = Some(create_buffer_subscription(1, v))
        /\ IsSome(views[v].current_svg)
        /\ active_item = EditorItem(2)

\* C12: whenever the error of a view is set, what the panel displays shows
\* that error inline: the error text with the warning icon.
C12_ErrorShownInline ==
    \A v \in ViewIds :
        IsSome(views[v].error)
            => /\ render(views[v]).icon = Some("Warning")
               /\ render(views[v]).text = views[v].error

\* C13: every view has at most one render task that is pending and not
\* cancelled, and it is the one _refresh holds; a step that submits a render
\* for a view submits one, and leaves every render submitted for the view
\* before it cancelled.
C13_AtMostOnePendingRender ==
    /\ [](\A v \in ViewIds :
             LET pending == {t \in tasks : t.view = v /\ ~t.cancelled} IN
             /\ Cardinality(pending) <= 1
             /\ \A t \in pending : t.id = views[v].refresh)
    /\ [][\A v \in 1..Len(views') :
             Submitted(v) # {}
                 => /\ Cardinality(Submitted(v)) = 1
                    /\ \A t \in Submitted(v) : ~t.cancelled /\ t.id = views'[v].refresh
                    /\ \A t \in tasks' \ Submitted(v) : t.view = v => t.cancelled]_vars

\* a view whose pending render superseded an earlier one that had not
\* resolved: the earlier one is cancelled, the later one is pending
C13_Witness ==
    \E v \in ViewIds :
        \E t \in tasks, u \in tasks :
            /\ t.view = v /\ u.view = v
            /\ t.cancelled /\ ~u.cancelled
            /\ t.id < u.id
            /\ u.id = views[v].refresh
            /\ ~IsSome(views[v].current_svg)

\* the renders view v submits in this step are exactly one, not cancelled,
\* of `content` at scale `scale_factor`
SubmitsOne(v, content, scale_factor) ==
    /\ Cardinality(Submitted(v)) = 1
    /\ \A t \in Submitted(v) :
           /\ ~t.cancelled
           /\ t.content = content
           /\ t.scale_factor = scale_factor

\* C14: an Edited or a Saved event of a buffer makes every open view bound to
\* it submit exactly one render, of the buffer's text as it is when the event is
\* handled and at the view's scale factor, and makes no other view submit
\* one; any other event of the buffer submits no render; and the step that
\* constructs a view submits exactly one render for it, of its buffer's text
\* at scale 1.0, or none when the view has no buffer.
C14_EditedOrSavedSubmitsOneRender ==
    [][/\ \A b \in EditedBuffers :
            /\ ((\E text \in Texts : BufferEdited(b, text)) \/ BufferEvent(b, "Saved"))
                   => \A v \in ViewIds :
                          IF views[v].buffer = Some(b) /\ v \notin closed
                          THEN SubmitsOne(v, buffer_text'[b], views[v].scale_factor)
                          ELSE Submitted(v) = {}
            /\ (\E event \in BufferEvents \ {"Edited", "Saved"} : BufferEvent(b, event))
                   => \A v \in ViewIds : Submitted(v) = {}
       /\ Len(views') = Len(views) + 1
              => LET v == Len(views') IN
                 IF IsSome(views'[v].buffer)
                 THEN SubmitsOne(v, buffer_text[Unwrap(views'[v].buffer)], ScaleInit)
                 ELSE Submitted(v) = {}]_vars

\* a view bound to a.svg whose pending render, not its first, is of the
\* edited text of a.svg
C14_Witness ==
    \E v \in ViewIds :
        /\ views[v].buffer = Some(1)
        /\ buffer_text[1] = "<svg>rect</svg>"
        /\ views[v].refresh >= 2
        /\ \E t \in tasks :
               /\ t.id = views[v].refresh /\ t.view = v /\ ~t.cancelled
               /\ t.content = "<svg>rect</svg>"
               /\ t.scale_factor = views[v].scale_factor

\* the ids of the images handed to window.drop_image so far
Released == {c.id : c \in drop_image_calls}

\* C15: when the continuation of a render that succeeded runs, the image
\* becomes current_svg and error is cleared whatever window.drop_image
\* returns; in that step the image the view held before, if any, is handed to
\* window.drop_image, once and for the first time, and nothing else is; and
\* the image a view holds has never been handed to window.drop_image.
C15_OldImageReleasedOnceOnSwap ==
    /\ [](\A v \in ViewIds \ closed :
             IsSome(views[v].current_svg) => Unwrap(views[v].current_svg).id \notin Released)
    /\ [][\A t \in tasks :
             (Resolves(t) /\ render_single_frame(t.id, t.content, t.scale_factor).ok)
                 => LET old == views[t.view].current_svg IN
                    /\ views'[t.view].current_svg =
                           render_single_frame(t.id, t.content, t.scale_factor).image
                    /\ views'[t.view].error = None
                    /\ IF IsSome(old)
                       THEN /\ Unwrap(old).id \notin Released
                            /\ \E ok \in BOOLEAN :
                                   drop_image_calls' = drop_image_calls \cup
                                       {[id |-> Unwrap(old).id, ok |-> ok]}
                       ELSE drop_image_calls' = drop_image_calls]_vars

\* a view holds a later image, with no error, after window.drop_image failed
\* for the image it held before
C15_Witness ==
    \E v \in ViewIds :
        /\ IsSome(views[v].current_svg)
        /\ views[v].error = None
        /\ \E c \in drop_image_calls :
               /\ ~c.ok
               /\ c.id < Unwrap(views[v].current_svg).id

\* C16: the step that closes a view cancels its pending render, removes its
\* buffer subscription and its workspace subscription, and hands the image
\* it holds to window.drop_image.
C16_CloseReleasesEverything ==
    [][\A v \in closed' \ closed :
           /\ \A t \in tasks' : t.view = v => t.cancelled
           /\ \A s \in subscriptions' : s.view # v
           /\ ~views'[v].workspace_subscription
           /\ IsSome(views[v].current_svg)
                  => Unwrap(views[v].current_svg).id \in {c.id : c \in drop_image_calls'}]_vars

\* view v has a buffer, no render of it is pending and its error is empty
Quiescent(v) ==
    /\ IsSome(views[v].buffer)
    /\ \A t \in tasks : t.view = v => t.cancelled
    /\ views[v].error = None

\* C17: whenever a view has a buffer, no pending render and no error, the
\* image it holds is the rasterizer's output for the buffer's current text
\* at the view's current scale factor.
C17_QuiescentImageIsCurrent ==
    \A v \in ViewIds \ closed :
        Quiescent(v)
            => /\ IsSome(views[v].current_svg)
               /\ render_single_frame(Unwrap(views[v].current_svg).id,
                                      buffer_text[Unwrap(views[v].buffer)],
                                      views[v].scale_factor).image
                      = views[v].current_svg

\* a Follow view at rest after an edit of a.svg and a zoom to 20.0
C17_Witness ==
    \E v \in ViewIds :
        /\ Quiescent(v)
        /\ views[v].mode = "Follow"
        /\ views[v].buffer = Some(1)
        /\ buffer_text[1] = "<svg>rect</svg>"
        /\ views[v].scale_factor = ScaleMax
        /\ IsSome(views[v].current_svg)

\* C18: a view that holds no image (none of its renders has succeeded yet)
\* has scale factor 1.0, pan offset (0,0) and drag anchor (0,0); a wheel
\* event or a drag start on it changes nothing and submits no render, also
\* when its first render has failed.
C18_InputOnlyWhileImageHeld ==
    /\ [](\A v \in ViewIds :
             ~IsSome(views[v].current_svg)
                 => /\ views[v].scale_factor = ScaleInit
                    /\ views[v].image_offset = Origin
                    /\ views[v].drag_start = Origin
                    /\ \A t \in tasks : t.view = v => t.scale_factor = ScaleInit)
    /\ [][\A v \in ViewIds :
             (/\ ~IsSome(views[v].current_svg)
              /\ \/ \E delta \in WheelDeltas : ScrollWheel(v, delta)
                 \/ \E position \in Positions : OnDrag(v, position))
                 => /\ Submitted(v) = {}
                    /\ UNCHANGED vars]_vars

\* the first render of a view has failed: it holds an error and no image,
\* nothing is pending, and it is still at scale 1.0 and offset (0,0)
C18_Witness ==
    \E v \in ViewIds :
        /\ IsSome(views[v].error)
        /\ ~IsSome(views[v].current_svg)
        /\ \A t \in tasks : t.view # v
        /\ views[v].scale_factor = ScaleInit
        /\ views[v].image_offset = Origin

\* C19: a wheel event with a nonzero delta on a view that holds an image
\* submits exactly one render for it, of its buffer's text at the clamped
\* sum of the scale factor and the delta, and leaves every earlier render of
\* the view cancelled, whether or not the clamped sum differs from the scale
\* factor; a wheel event with a zero delta submits none.
C19_NonzeroWheelSubmitsOneRender ==
    [][\A v \in ViewIds, delta \in WheelDeltas :
           (IsSome(views[v].current_svg) /\ ScrollWheel(v, delta))
               => IF delta # 0
                  THEN LET sum == views[v].scale_factor + delta
                           scale == IF sum < ScaleMin THEN ScaleMin
                                    ELSE IF sum > ScaleMax THEN ScaleMax ELSE sum
                       IN /\ SubmitsOne(v, buffer_text[Unwrap(views[v].buffer)], scale)
                          /\ views'[v].scale_factor = scale
                          /\ \A t \in tasks' \ Submitted(v) : t.view = v => t.cancelled
                  ELSE Submitted(v) = {}]_vars

\* a view that holds an image and is at 20.0 has a render at 20.0 pending,
\* which superseded one at 20.0: a wheel event at the upper bound re-rendered
C19_Witness ==
    \E v \in ViewIds :
        /\ IsSome(views[v].current_svg)
        /\ views[v].scale_factor = ScaleMax
        /\ \E t \in tasks, u \in tasks :
               /\ t.view = v /\ u.view = v
               /\ t.scale_factor = ScaleMax /\ u.scale_factor = ScaleMax
               /\ t.content = u.content
               /\ t.cancelled /\ ~u.cancelled
               /\ u.id = views[v].refresh

\* C20: a step that changes the buffer of a view leaves its image, error,
\* scale factor, pan offset and drag anchor alone; the continuation of a
\* render changes nothing of its view but current_svg and error, and
\* submits no render; a drag start or a drag move changes nothing of its
\* view but drag_start and image_offset, and leaves the render tasks and
\* the subscriptions alone; a wheel event changes neither the pan offset,
\* the drag anchor, the buffer nor the subscriptions of its view.
C20_FrameConditions ==
    [][/\ \A v \in ViewIds :
             views'[v].buffer # views[v].buffer
                 => /\ views'[v].current_svg = views[v].current_svg
                    /\ views'[v].error = views[v].error
                    /\ views'[v].scale_factor = views[v].scale_factor
                    /\ views'[v].image_offset = views[v].image_offset
                    /\ views'[v].drag_start = views[v].drag_start
       /\ \A t \in tasks :
             Resolves(t)
                 => /\ views' = [views EXCEPT
                                     ![t.view].current_svg = views'[t.view].current_svg,
                                     ![t.view].error = views'[t.view].error]
                    /\ tasks' = tasks \ {t}
                    /\ UNCHANGED <<subscriptions, next_task, active_drag, buffer_text>>
       /\ \A v \in ViewIds :
             (\/ \E position \in Positions : OnDrag(v, position)
              \/ /\ IsSome(active_drag) /\ Unwrap(active_drag).view = v
                 /\ \E position \in Positions, origin \in Origins :
                        OnDragMove(position, origin))
                 => /\ views' = [views EXCEPT
                                     ![v].drag_start = views'[v].drag_start,
                                     ![v].image_offset = views'[v].image_offset]
                    /\ UNCHANGED <<tasks, next_task, subscriptions, buffer_text>>
       /\ \A v \in ViewIds, delta \in WheelDeltas :
             ScrollWheel(v, delta)
                 => /\ views'[v].image_offset = views[v].image_offset
                    /\ views'[v].drag_start = views[v].drag_start
                    /\ views'[v].buffer = views[v].buffer
                    /\ views'[v].buffer_subscription = views[v].buffer_subscription
                    /\ views'[v].current_svg = views[v].current_svg
                    /\ views'[v].error = views[v].error
                    /\ UNCHANGED <<subscriptions, active_drag, buffer_text>>]_vars

\* a Follow view, zoomed and panned while it showed a.svg, has rebound to
\* icon.SVG and still holds the image of a.svg, zoom and pan as they were,
\* with the render of icon.SVG pending
C20_Witness ==
    \E v \in ViewIds :
        /\ views[v].mode = "Follow"
        /\ views[v].buffer = Some(2)
        /\ IsSome(views[v].current_svg)
        /\ Unwrap(views[v].current_svg).src # buffer_text[2]
        /\ views[v].scale_factor # ScaleInit
        /\ views[v].image_offset # Origin
        /\ \E t \in tasks :
               t.id = views[v].refresh /\ ~t.cancelled /\ t.content = buffer_text[2]

============================================================================
